---- MODULE Spec2Model ----
(***************************************************************************)
(* A model of dijkstra-rs (src/src/lib.rs): the Graph registry and the two *)
(* shortest-path procedures Graph::dijkstra_heap and                       *)
(* Graph::dijkstra_no_heap, stepped one loop iteration / one edge at a     *)
(* time.  u32 arithmetic is kept at a reduced width (Width bits) so that   *)
(* `current_distance + neighbor.weight` can overflow; what an overflow     *)
(* does depends on the build profile (overflow checks on: panic; off:      *)
(* two's-complement wrap), which the model leaves open until the first     *)
(* overflow happens.                                                       *)
(***************************************************************************)
EXTENDS Integers, Sequences, FiniteSets, Bags, TLC

VARIABLES
    graph,            \* Graph.vertices : HashMap<VertexId, Vertex>
    start,            \* the Vertex handed to the call
    pc,               \* position of the caller / of the running call
    profile,          \* "unknown" | "debug" | "release" (overflow checks)
    distances,        \* local `distances` of the running call
    visited,          \* local `visited`
    priority_queue,   \* local `priority_queue` (dijkstra_heap), a bag of State
    current_vertex,   \* local `current_vertex`
    current_distance, \* local `current_distance`
    edge_idx,         \* position of `for neighbor in &current_vertex.edges`
    graph_size,       \* local `graph_size` (dijkstra_no_heap)
    ret,              \* what the last call handed back to its caller
    called,           \* the procedures that have returned
    final_heap,       \* history: `distances` when dijkstra_heap left its loop
    final_scan,       \* history: `distances` when dijkstra_no_heap left its loop
    round,            \* 1, or 2 once the caller has rebuilt the graph
    prev_heap,        \* history: final_heap of round 1
    prev_scan,        \* history: final_scan of round 1
    added             \* history: the vertices handed to add_vertex, in order

vars == <<graph, start, pc, profile, distances, visited, priority_queue,
          current_vertex, current_distance, edge_idx, graph_size, ret, called,
          final_heap, final_scan, round, prev_heap, prev_scan, added>>

\* what the caller did before the running call
earlier == <<round, prev_heap, prev_scan, added>>

-----------------------------------------------------------------------------
(* Bounds of the model. *)

\* number of add_vertex calls made on a new graph
MaxAdds == 3

\* number of bits of the model's u32
Width == 4

\* most edges a drawn graph holds, over all its vertices
MaxEdges == 2

\* u32::MAX at the model's width
U32_MAX == 2^Width - 1

Modulus == U32_MAX + 1

VertexIds == {"A", "B", "C", "D"}

Weights == {0, 1, U32_MAX}

\* the key sets of the graphs drawn; the start vertex "A" is in each
KeySets == {{"A", "B", "C"}, {"A", "B", "C", "D"}}

-----------------------------------------------------------------------------
(* Data model. *)

Edge == [to : VertexIds, weight : Weights]

NewVertex(id, edges) == [id |-> id, edges |-> edges]

\* a placeholder for `current_vertex` while no call runs
NoVertex == NewVertex("A", <<>>)

\* the empty HashMap
EmptyMap == <<>>

\* Graph::new
GraphNew == EmptyMap

\* HashMap::insert
MapInsert(m, k, v) == [x \in (DOMAIN m) \cup {k} |-> IF x = k THEN v ELSE m[x]]

\* Graph::add_vertex
\* an insert that keeps the vertex already stored under the identity
add_vertex_KeepsFirst(g, vertex) ==
    IF vertex.id \in DOMAIN g THEN g ELSE MapInsert(g, vertex.id, vertex)

add_vertex(g, vertex) == MapInsert(g, vertex.id, vertex)

\* the unit value `()`, the empty tuple
Unit == <<>>

\* State { cost, vertex }
State(cost, vertex) == [cost |-> cost, vertex |-> vertex]

\* a State ordered by cost as it stands (cmp not reversed): the heap hands back
\* a dearest entry
IsGreatest_NotReversed(s, q) == \A t \in BagToSet(q) : s.cost >= t.cost

\* impl Ord for State: self is Greater than other iff self.cost < other.cost;
\* BinaryHeap::pop hands back a greatest element
IsGreatest(s, q) == \A t \in BagToSet(q) : s.cost <= t.cost

\* current_distance + neighbor.weight, before the width is applied
Sum(a, b) == a + b

Overflows(a, b) == Sum(a, b) > U32_MAX

\* the sum as a build without overflow checks computes it
WrappingAdd(a, b) == Sum(a, b) % Modulus

-----------------------------------------------------------------------------
(* The graphs a call is made on: built from Graph::new by add_vertex.  A    *)
(* graph is drawn as a key set and a sequence of slots <<from, edge>>; the  *)
(* edges of a vertex are its slots, in their order.                        *)

RECURSIVE EdgesFrom(_, _)
EdgesFrom(k, slots) ==
    IF slots = <<>> THEN <<>>
    ELSE IF Head(slots)[1] = k
         THEN <<Head(slots)[2]>> \o EdgesFrom(k, Tail(slots))
         ELSE EdgesFrom(k, Tail(slots))

RECURSIVE AddAll(_, _, _)
AddAll(g, keys, slots) ==
    IF keys = {} THEN g
    ELSE LET k == CHOOSE x \in keys : TRUE
         IN  AddAll(add_vertex(g, NewVertex(k, EdgesFrom(k, slots))),
                    keys \ {k}, slots)

GraphOf(keys, slots) == AddAll(GraphNew, keys, slots)

\* the graph of the concrete scenario: A->B(1), A->C(4), B->C(2), B->D(5), C->D(1)
E(to, weight) == [to |-> to, weight |-> weight]

Scenario ==
    GraphOf({"A", "B", "C", "D"},
            << <<"A", E("B", 1)>>, <<"A", E("C", 4)>>, <<"B", E("C", 2)>>,
               <<"B", E("D", 5)>>, <<"C", E("D", 1)>> >>)

-----------------------------------------------------------------------------
(* Lookups of the distance tables. *)

\* distances.get(&id).unwrap_or(&(u32::MAX, vec![])).0   (dijkstra_heap)
HeapDist(d, id) == IF id \in DOMAIN d THEN d[id][1] ELSE U32_MAX

\* *distances.get(&id).unwrap_or(&u32::MAX)   (dijkstra_no_heap)
ScanDist(d, id) == IF id \in DOMAIN d THEN d[id] ELSE U32_MAX

-----------------------------------------------------------------------------
\* the state between calls, on graph g
Idle(g) ==
    /\ graph = g
    /\ start = g["A"]
    /\ pc = "idle"
    /\ profile = "unknown"
    /\ distances = EmptyMap
    /\ visited = {}
    /\ priority_queue = EmptyBag
    /\ current_vertex = NoVertex
    /\ current_distance = 0
    /\ edge_idx = 0
    /\ graph_size = 0
    /\ ret = Unit
    /\ called = {}
    /\ final_heap = EmptyMap
    /\ final_scan = EmptyMap
    /\ round = 1
    /\ prev_heap = EmptyMap
    /\ prev_scan = EmptyMap
    /\ added = <<>>

\* a graph over one of the key sets, of at most n edges
Drawn(keysets, n) ==
    \E keys \in keysets : \E k \in 0..n : \E slots \in [1..k -> keys \X Edge] :
        Idle(GraphOf(keys, slots))

Init == Drawn(KeySets, MaxEdges) \/ Idle(Scenario)

\* for the runs on a rebuilt graph: three vertices, one edge more
InitRebuild == Drawn({{"A", "B", "C"}}, MaxEdges + 1)

\* the locals of a call are dropped when it returns or unwinds
DropLocals ==
    /\ distances' = EmptyMap
    /\ visited' = {}
    /\ priority_queue' = EmptyBag
    /\ current_vertex' = NoVertex
    /\ current_distance' = 0
    /\ edge_idx' = 0
    /\ graph_size' = 0

-----------------------------------------------------------------------------
(* Graph::dijkstra_heap *)

\* lines 68-74: the tables, the queue, the first entry
CallHeap ==
    /\ pc = "idle"
    /\ "heap" \notin called
    /\ pc' = "heap_pop"
    /\ distances' = MapInsert(EmptyMap, start.id, <<0, <<start.id>>>>)
    /\ visited' = {}
    /\ priority_queue' = SetToBag({State(0, start)})
    /\ UNCHANGED <<graph, start, profile, current_vertex, current_distance,
                   edge_idx, graph_size, ret, called, final_heap, final_scan, earlier>>

\* where the loop goes after the edge at position i of vertex v
AfterEdge(v, i, inner, outer) == IF i < Len(v.edges) THEN inner ELSE outer

\* lines 76-80 without the test of lines 77-79: every popped vertex is expanded
HeapPop_NoSkip ==
    /\ pc = "heap_pop"
    /\ \E s \in BagToSet(priority_queue) :
        /\ IsGreatest(s, priority_queue)
        /\ priority_queue' = priority_queue (-) SetToBag({s})
        /\ visited' = visited \cup {s.vertex.id}
        /\ current_vertex' = s.vertex
        /\ current_distance' = s.cost
        /\ edge_idx' = 1
        /\ pc' = AfterEdge(s.vertex, 0, "heap_for", "heap_pop")
    /\ UNCHANGED <<graph, start, profile, distances, graph_size, ret, called,
                   final_heap, final_scan, earlier>>

\* lines 76-79: pop a greatest State; a visited vertex is skipped
HeapPop ==
    /\ pc = "heap_pop"
    /\ \E s \in BagToSet(priority_queue) :
        /\ IsGreatest(s, priority_queue)
        /\ priority_queue' = priority_queue (-) SetToBag({s})
        /\ IF s.vertex.id \in visited
           THEN UNCHANGED <<visited, current_vertex, current_distance,
                            edge_idx, pc>>
           ELSE /\ visited' = visited \cup {s.vertex.id}
                /\ current_vertex' = s.vertex
                /\ current_distance' = s.cost
                /\ edge_idx' = 1
                /\ pc' = AfterEdge(s.vertex, 0, "heap_for", "heap_pop")
    /\ UNCHANGED <<graph, start, profile, distances, graph_size, ret, called,
                   final_heap, final_scan, earlier>>

\* the test of line 86 with <= for <
HeapImproves_NotStrict(d, id, distance) ==
    distance <= HeapDist(d, id) \/ id \notin DOMAIN d

\* line 86: the test that lets an edge relax its target
HeapImproves(d, id, distance) == distance < HeapDist(d, id) \/ id \notin DOMAIN d

\* the new entry keeps the path of the current vertex, without the target
HeapRelaxTo_PathNotExtended(neighbor, distance) ==
    IF HeapImproves(distances, neighbor.to, distance)
    THEN /\ distances' = MapInsert(distances, neighbor.to,
                <<distance, distances[current_vertex.id][2]>>)
         /\ priority_queue' =
                priority_queue (+) SetToBag({State(distance, graph[neighbor.to])})
    ELSE UNCHANGED <<distances, priority_queue>>

\* lines 87-95: the new entry of the table and of the queue
HeapRelaxTo(neighbor, distance) ==
    IF HeapImproves(distances, neighbor.to, distance)
    THEN /\ distances' = MapInsert(distances, neighbor.to,
                <<distance, Append(distances[current_vertex.id][2], neighbor.to)>>)
         /\ priority_queue' =
                priority_queue (+) SetToBag({State(distance, graph[neighbor.to])})
    ELSE UNCHANGED <<distances, priority_queue>>

\* line 84 in a build with overflow checks: the addition panics, the call unwinds
HeapOverflowPanic ==
    /\ pc = "heap_for"
    /\ current_vertex.edges[edge_idx].to \in DOMAIN graph
    /\ Overflows(current_distance, current_vertex.edges[edge_idx].weight)
    /\ profile \in {"unknown", "debug"}
    /\ profile' = "debug"
    /\ pc' = "panicked"
    /\ DropLocals
    /\ UNCHANGED <<graph, start, ret, called, final_heap, final_scan, earlier>>

\* lines 81-82 with the target taken out of the graph rather than looked up
HeapRelax_TakesTarget ==
    /\ pc = "heap_for"
    /\ LET neighbor == current_vertex.edges[edge_idx]
       IN  IF neighbor.to \notin DOMAIN graph
           THEN UNCHANGED <<graph, distances, priority_queue, profile>>
           ELSE /\ graph' = [k \in DOMAIN graph \ {neighbor.to} |-> graph[k]]
                /\ IF Overflows(current_distance, neighbor.weight)
                   THEN /\ profile \in {"unknown", "release"}
                        /\ profile' = "release"
                        /\ HeapRelaxTo(neighbor,
                               WrappingAdd(current_distance, neighbor.weight))
                   ELSE /\ HeapRelaxTo(neighbor,
                               Sum(current_distance, neighbor.weight))
                        /\ UNCHANGED profile
    /\ edge_idx' = edge_idx + 1
    /\ pc' = AfterEdge(current_vertex, edge_idx, "heap_for", "heap_pop")
    /\ UNCHANGED <<start, visited, current_vertex, current_distance,
                   graph_size, ret, called, final_heap, final_scan, earlier>>

\* lines 81-97: one turn of `for neighbor in &current_vertex.edges`
HeapRelax ==
    /\ pc = "heap_for"
    /\ LET neighbor == current_vertex.edges[edge_idx]
       IN  IF neighbor.to \notin DOMAIN graph
           THEN UNCHANGED <<distances, priority_queue, profile>>
           ELSE IF Overflows(current_distance, neighbor.weight)
           THEN /\ profile \in {"unknown", "release"}
                /\ profile' = "release"
                /\ HeapRelaxTo(neighbor,
                        WrappingAdd(current_distance, neighbor.weight))
           ELSE /\ HeapRelaxTo(neighbor, Sum(current_distance, neighbor.weight))
                /\ UNCHANGED profile
    /\ edge_idx' = edge_idx + 1
    /\ pc' = AfterEdge(current_vertex, edge_idx, "heap_for", "heap_pop")
    /\ UNCHANGED <<graph, start, visited, current_vertex, current_distance,
                   graph_size, ret, called, final_heap, final_scan, earlier>>

\* the value dijkstra_heap hands back: the function has no return type
HeapReturnValue(d) == Unit

\* lines 76, 100: the queue is empty, the call returns
HeapReturn ==
    /\ pc = "heap_pop"
    /\ priority_queue = EmptyBag
    /\ final_heap' = distances
    /\ ret' = HeapReturnValue(distances)
    /\ called' = called \cup {"heap"}
    /\ pc' = "idle"
    /\ DropLocals
    /\ UNCHANGED <<graph, start, profile, final_scan, earlier>>

-----------------------------------------------------------------------------
(* Graph::dijkstra_no_heap *)

\* lines 103-109
CallScan ==
    /\ pc = "idle"
    /\ "scan" \notin called
    /\ pc' = "scan_while"
    /\ distances' = MapInsert(EmptyMap, start.id, 0)
    /\ visited' = {}
    /\ current_vertex' = start
    /\ graph_size' = Cardinality(DOMAIN graph)
    /\ UNCHANGED <<graph, start, profile, priority_queue, current_distance,
                   edge_idx, ret, called, final_heap, final_scan, earlier>>

\* lines 111-114: the loop test, the visit, the current distance
ScanVisit ==
    /\ pc = "scan_while"
    /\ IF Cardinality(visited) < graph_size
       THEN /\ visited' = visited \cup {current_vertex.id}
            /\ current_distance' = ScanDist(distances, current_vertex.id)
            /\ edge_idx' = 1
            /\ pc' = AfterEdge(current_vertex, 0, "scan_for", "scan_select")
       ELSE /\ pc' = "scan_done"
            /\ UNCHANGED <<visited, current_distance, edge_idx>>
    /\ UNCHANGED <<graph, start, profile, distances, priority_queue,
                   current_vertex, graph_size, ret, called, final_heap,
                   final_scan, earlier>>

\* every edge overwrites the entry of its target
ScanImproves_NoTest(d, id, distance) == TRUE

\* line 119: the test that lets an edge relax its target
ScanImproves(d, id, distance) == distance < ScanDist(d, id)

\* lines 119-121
ScanRelaxTo(neighbor, distance) ==
    IF ScanImproves(distances, neighbor.to, distance)
    THEN distances' = MapInsert(distances, neighbor.to, distance)
    ELSE UNCHANGED distances

\* line 117 in a build with overflow checks: the addition panics, the call unwinds
ScanOverflowPanic ==
    /\ pc = "scan_for"
    /\ Overflows(current_distance, current_vertex.edges[edge_idx].weight)
    /\ profile \in {"unknown", "debug"}
    /\ profile' = "debug"
    /\ pc' = "panicked"
    /\ DropLocals
    /\ UNCHANGED <<graph, start, ret, called, final_heap, final_scan, earlier>>

\* lines 116-122: one turn of `for neighbor in &current_vertex.edges`
ScanRelax ==
    /\ pc = "scan_for"
    /\ LET neighbor == current_vertex.edges[edge_idx]
       IN  IF Overflows(current_distance, neighbor.weight)
           THEN /\ profile \in {"unknown", "release"}
                /\ profile' = "release"
                /\ ScanRelaxTo(neighbor,
                        WrappingAdd(current_distance, neighbor.weight))
           ELSE /\ ScanRelaxTo(neighbor, Sum(current_distance, neighbor.weight))
                /\ UNCHANGED profile
    /\ edge_idx' = edge_idx + 1
    /\ pc' = AfterEdge(current_vertex, edge_idx, "scan_for", "scan_select")
    /\ UNCHANGED <<graph, start, visited, priority_queue, current_vertex,
                   current_distance, graph_size, ret, called, final_heap,
                   final_scan, earlier>>

\* lines 124-127: the unvisited vertices of the graph
Unvisited == {k \in DOMAIN graph : graph[k].id \notin visited}

\* max_by_key in place of min_by_key
IsMinByKey_Max(k, candidates, d) ==
    \A j \in candidates : ScanDist(d, graph[k].id) >= ScanDist(d, graph[j].id)

\* min_by_key over HashMap::iter: a least key, the first met in iteration order
IsMinByKey(k, candidates, d) ==
    \A j \in candidates : ScanDist(d, graph[k].id) <= ScanDist(d, graph[j].id)

\* lines 124-133: choose the next current vertex, or leave the loop
ScanSelect ==
    /\ pc = "scan_select"
    /\ IF Unvisited = {}
       THEN /\ pc' = "scan_done"
            /\ UNCHANGED current_vertex
       ELSE \E k \in Unvisited :
            /\ IsMinByKey(k, Unvisited, distances)
            /\ current_vertex' = graph[k]
            /\ pc' = "scan_while"
    /\ UNCHANGED <<graph, start, profile, distances, visited, priority_queue,
                   current_distance, edge_idx, graph_size, ret, called,
                   final_heap, final_scan, earlier>>

\* the value dijkstra_no_heap hands back: the function has no return type
ScanReturnValue(d) == Unit

\* line 135: the call returns
ScanReturn ==
    /\ pc = "scan_done"
    /\ final_scan' = distances
    /\ ret' = ScanReturnValue(distances)
    /\ called' = called \cup {"scan"}
    /\ pc' = "idle"
    /\ DropLocals
    /\ UNCHANGED <<graph, start, profile, final_heap, earlier>>

-----------------------------------------------------------------------------
Next ==
    \/ CallHeap
    \/ HeapPop
    \/ HeapRelax
    \/ HeapOverflowPanic
    \/ HeapReturn
    \/ CallScan
    \/ ScanVisit
    \/ ScanRelax
    \/ ScanOverflowPanic
    \/ ScanSelect
    \/ ScanReturn

Spec == Init /\ [][Next]_vars

\* the code is one thread: it runs on whenever it has a step to take
SpecFair == Spec /\ WF_vars(Next)

-----------------------------------------------------------------------------
(* The caller builds the graph again (Graph::new, add_vertex for every      *)
(* vertex) with the edge list of one vertex in another order, and calls    *)
(* both procedures on the new graph.                                       *)

\* the edge lists that hold the edges of `edges` in another order
Reordered(edges) ==
    {[i \in 1..Len(edges) |-> edges[f[i]]] :
        f \in {h \in [1..Len(edges) -> 1..Len(edges)] :
                 \A i, j \in 1..Len(edges) : h[i] = h[j] => i = j}} \ {edges}

Rebuild ==
    /\ pc = "idle"
    /\ round = 1
    /\ called = {"heap", "scan"}
    /\ \E k \in DOMAIN graph : \E edges \in Reordered(graph[k].edges) :
        /\ graph' = add_vertex(graph, NewVertex(k, edges))
        /\ start' = graph'[start.id]
    /\ round' = 2
    /\ prev_heap' = final_heap
    /\ prev_scan' = final_scan
    /\ called' = {}
    /\ final_heap' = EmptyMap
    /\ final_scan' = EmptyMap
    /\ UNCHANGED <<pc, profile, distances, visited, priority_queue,
                   current_vertex, current_distance, edge_idx, graph_size, ret,
                   added>>

NextRebuild == Next \/ Rebuild

SpecRebuild == InitRebuild /\ [][NextRebuild]_vars

-----------------------------------------------------------------------------
(* The caller calls both procedures a second time on the same graph and    *)
(* start; the queue and the HashMap are free to order equal keys otherwise. *)

Again ==
    /\ pc = "idle"
    /\ round = 1
    /\ called = {"heap", "scan"}
    /\ round' = 2
    /\ prev_heap' = final_heap
    /\ prev_scan' = final_scan
    /\ called' = {}
    /\ final_heap' = EmptyMap
    /\ final_scan' = EmptyMap
    /\ UNCHANGED <<graph, start, pc, profile, distances, visited, priority_queue,
                   current_vertex, current_distance, edge_idx, graph_size, ret,
                   added>>

NextAgain == Next \/ Again

SpecAgain == Init /\ [][NextAgain]_vars

-----------------------------------------------------------------------------
(* The caller builds a graph: Graph::new, then add_vertex calls.           *)

\* the vertices the caller adds: two identities, at most one edge each
BuildVertices ==
    {NewVertex(id, edges) : id \in {"A", "B"},
                            edges \in {<<>>} \cup {<<e>> : e \in Edge}}

\* lines 55-59: the graph of Graph::new, no call made yet
InitBuild ==
    /\ graph = GraphNew
    /\ start = NoVertex
    /\ pc = "idle"
    /\ profile = "unknown"
    /\ distances = EmptyMap
    /\ visited = {}
    /\ priority_queue = EmptyBag
    /\ current_vertex = NoVertex
    /\ current_distance = 0
    /\ edge_idx = 0
    /\ graph_size = 0
    /\ ret = Unit
    /\ called = {}
    /\ final_heap = EmptyMap
    /\ final_scan = EmptyMap
    /\ round = 1
    /\ prev_heap = EmptyMap
    /\ prev_scan = EmptyMap
    /\ added = <<>>

\* lines 61-65: one add_vertex call
AddVertex ==
    /\ pc = "idle"
    /\ Len(added) < MaxAdds
    /\ \E vertex \in BuildVertices :
        /\ graph' = add_vertex(graph, vertex)
        /\ added' = Append(added, vertex)
    /\ UNCHANGED <<start, pc, profile, distances, visited, priority_queue,
                   current_vertex, current_distance, edge_idx, graph_size, ret,
                   called, final_heap, final_scan, round, prev_heap, prev_scan>>

NextBuild == AddVertex

SpecBuild == InitBuild /\ [][NextBuild]_vars

-----------------------------------------------------------------------------
(* What the claims speak of, defined on the graph alone with unbounded     *)
(* integers.                                                               *)

\* the edges (u -> v, w) of g between vertices present in g
EdgesIn(g) ==
    {e \in UNION {{<<u, g[u].edges[i].to, g[u].edges[i].weight>> :
                      i \in 1..Len(g[u].edges)} : u \in DOMAIN g} :
        e[2] \in DOMAIN g}

RECURSIVE SeqSum(_)
SeqSum(ws) == IF ws = <<>> THEN 0 ELSE Head(ws) + SeqSum(Tail(ws))

RECURSIVE TotalWeight(_, _)
TotalWeight(g, keys) ==
    IF keys = {} THEN 0
    ELSE LET k == CHOOSE x \in keys : TRUE
         IN  SeqSum([i \in 1..Len(g[k].edges) |-> g[k].edges[i].weight])
               + TotalWeight(g, keys \ {k})

\* the weights of the graph's edges sum to at most u32::MAX
LightGraph == TotalWeight(graph, DOMAIN graph) <= U32_MAX

Least(S) == CHOOSE x \in S : \A y \in S : x <= y

\* one round of relaxing every edge
RelaxAll(g, d) ==
    LET cand(v) == (IF v \in DOMAIN d THEN {d[v]} ELSE {})
                     \cup {d[e[1]] + e[3] :
                             e \in {f \in EdgesIn(g) : f[2] = v /\ f[1] \in DOMAIN d}}
    IN  [v \in {x \in DOMAIN g : cand(x) # {}} |-> Least(cand(v))]

RECURSIVE RelaxRounds(_, _, _)
RelaxRounds(g, d, n) == IF n = 0 THEN d ELSE RelaxRounds(g, RelaxAll(g, d), n - 1)

\* the least total weight of a path from s to each vertex that has one
MinWeight(g, s) == RelaxRounds(g, [x \in {s} |-> 0], Cardinality(DOMAIN g))

\* the graph vertices a path from s leads to
Reachable(g, s) == DOMAIN MinWeight(g, s)

HeapRunning == pc \in {"heap_pop", "heap_for"}

\* the caller has the control back and the procedure has run to its end
HeapEnded == pc = "idle" /\ "heap" \in called

ScanEnded == pc = "idle" /\ "scan" \in called

ScanRunning == pc \in {"scan_while", "scan_for", "scan_select", "scan_done"}

-----------------------------------------------------------------------------
\* C1 as stated: when dijkstra_heap has terminated, every graph vertex reachable
\* from start has a distance entry, and it is the least total weight of a path
\* from start to it.
C1_HeapMinimalAnyWeights ==
    HeapEnded =>
        \A v \in Reachable(graph, start.id) :
            /\ v \in DOMAIN final_heap
            /\ final_heap[v][1] = MinWeight(graph, start.id)[v]

\* C1 amended: the same, on graphs whose edge weights sum to at most u32::MAX.
C1_HeapMinimal == (HeapEnded /\ LightGraph) => C1_HeapMinimalAnyWeights

\* C1's case: a terminated run in which some vertex lies closer over a path of
\* two or more edges than over an edge that leaves start for it.
C1_Witness ==
    /\ HeapEnded
    /\ LightGraph
    /\ \E v \in DOMAIN final_heap :
        /\ Len(final_heap[v][2]) >= 3
        /\ \E e \in EdgesIn(graph) :
             e[1] = start.id /\ e[2] = v /\ e[3] > final_heap[v][1]

-----------------------------------------------------------------------------
\* C2 (on graphs whose weights sum to at most u32::MAX): when both procedures
\* have terminated, every identity with an entry in both final tables has the
\* same distance in both.
C2_TablesAgree ==
    (HeapEnded /\ ScanEnded /\ LightGraph) =>
        \A id \in (DOMAIN final_heap) \cap (DOMAIN final_scan) :
            final_heap[id][1] = final_scan[id]

-----------------------------------------------------------------------------
\* C3 (on graphs whose weights sum to at most u32::MAX): a graph vertex with no
\* path from start has no entry in the final table of either procedure.
C3_UnreachableAbsent ==
    (pc = "idle" /\ LightGraph) =>
        \A v \in (DOMAIN graph) \ Reachable(graph, start.id) :
            /\ HeapEnded => v \notin DOMAIN final_heap
            /\ ScanEnded => v \notin DOMAIN final_scan

-----------------------------------------------------------------------------
\* C4 (on graphs whose weights sum to at most u32::MAX): the final table of
\* either procedure has entries for identities of the graph only.
C4_NoEntryOutsideGraph ==
    (pc = "idle" /\ LightGraph) =>
        /\ HeapEnded => DOMAIN final_heap \subseteq DOMAIN graph
        /\ ScanEnded => DOMAIN final_scan \subseteq DOMAIN graph

-----------------------------------------------------------------------------
\* the weights an edge from u to v carries in the graph
WeightsBetween(u, v) ==
    IF u \in DOMAIN graph
    THEN {graph[u].edges[i].weight :
            i \in {j \in 1..Len(graph[u].edges) : graph[u].edges[j].to = v}}
    ELSE {}

\* the total weights of the walks that follow path p edge by edge
RECURSIVE PathSums(_)
PathSums(p) ==
    IF Len(p) <= 1 THEN {0}
    ELSE {w + s : w \in WeightsBetween(p[1], p[2]), s \in PathSums(Tail(p))}

\* every path of table d starts at start, ends at its vertex, follows edges of
\* the graph, and weighs what the table records as the distance
PathsConsistent(d) ==
    \A v \in DOMAIN d :
        LET p == d[v][2]
        IN  /\ Len(p) >= 1
            /\ p[1] = start.id
            /\ p[Len(p)] = v
            /\ \A i \in 1..(Len(p) - 1) : WeightsBetween(p[i], p[i + 1]) # {}
            /\ d[v][1] \in PathSums(p)

\* C5 as stated: in every state of a dijkstra_heap call and at its end, every
\* recorded path starts at start, ends at its vertex, follows edges of the
\* graph, and its weights sum to the recorded distance.
C5_PathsConsistentAnyWeights ==
    /\ HeapRunning => PathsConsistent(distances)
    /\ HeapEnded => PathsConsistent(final_heap)

\* C5 amended: the same, on graphs whose edge weights sum to at most u32::MAX.
C5_PathsConsistent ==
    ((HeapRunning \/ HeapEnded) /\ LightGraph) => C5_PathsConsistentAnyWeights

\* C5's case: in the middle of a call a path of two or more edges is recorded.
C5_Witness ==
    /\ pc = "heap_for"
    /\ LightGraph
    /\ \E v \in DOMAIN distances : Len(distances[v][2]) >= 3

-----------------------------------------------------------------------------
\* C6: after a call the caller holds the table the call computed.
C6_ReturnsTable ==
    /\ (pc = "idle" /\ called = {"heap"}) => ret = final_heap
    /\ (pc = "idle" /\ called = {"scan"}) => ret = final_scan

-----------------------------------------------------------------------------
\* C7: on the scenario graph neither procedure fails, and they end with
\* A=0, B=1, C=3, D=4; dijkstra_heap records the path A, B, C, D for D.
C7_Scenario ==
    graph = Scenario =>
        /\ pc # "panicked"
        /\ HeapEnded =>
             /\ DOMAIN final_heap = {"A", "B", "C", "D"}
             /\ final_heap["A"][1] = 0
             /\ final_heap["B"][1] = 1
             /\ final_heap["C"][1] = 3
             /\ final_heap["D"][1] = 4
             /\ final_heap["D"][2] = <<"A", "B", "C", "D">>
        /\ ScanEnded =>
             /\ DOMAIN final_scan = {"A", "B", "C", "D"}
             /\ final_scan["A"] = 0
             /\ final_scan["B"] = 1
             /\ final_scan["C"] = 3
             /\ final_scan["D"] = 4

\* C7's case: both procedures have run to their end on the scenario graph.
C7_Witness == graph = Scenario /\ HeapEnded /\ ScanEnded

-----------------------------------------------------------------------------
\* table d, read as distances by `dist`, is closed under the graph's edges
Closed(d, dist(_, _)) ==
    \A e \in EdgesIn(graph) :
        e[1] \in Reachable(graph, start.id) =>
            /\ e[1] \in DOMAIN d
            /\ e[2] \in DOMAIN d
            /\ dist(d, e[2]) <= dist(d, e[1]) + e[3]

\* C8 (on graphs whose weights sum to at most u32::MAX): at the end of either
\* procedure, for every edge (u -> v, w) with u reachable and v in the graph,
\* v has an entry and distance[v] <= distance[u] + w.
C8_RelaxationClosure ==
    (pc = "idle" /\ LightGraph) =>
        /\ HeapEnded => Closed(final_heap, HeapDist)
        /\ ScanEnded => Closed(final_scan, ScanDist)

-----------------------------------------------------------------------------
\* C9: the distance recorded for start is 0 in every state of a call of either
\* procedure and at its end.
C9_StartZero ==
    /\ HeapRunning => start.id \in DOMAIN distances /\ distances[start.id][1] = 0
    /\ ScanRunning => start.id \in DOMAIN distances /\ distances[start.id] = 0
    /\ HeapEnded => final_heap[start.id][1] = 0
    /\ ScanEnded => final_scan[start.id] = 0

\* C9's case: an edge of weight 0 from another vertex back to start has just
\* been relaxed.
C9_Witness ==
    /\ pc \in {"heap_for", "heap_pop", "scan_for", "scan_select"}
    /\ edge_idx >= 2
    /\ current_vertex.id # start.id
    /\ current_vertex.edges[edge_idx - 1] = [to |-> start.id, weight |-> 0]

-----------------------------------------------------------------------------
\* the distances of a table of dijkstra_heap
HeapDistances(d) == [id \in DOMAIN d |-> d[id][1]]

\* C10 (on graphs whose weights sum to at most u32::MAX): after the edge list
\* of one vertex has been put in another order, both procedures end with the
\* table they ended with before: the same identities, the same distances.
C10_EdgeOrderIndependent ==
    (pc = "idle" /\ round = 2 /\ LightGraph) =>
        /\ HeapEnded => HeapDistances(final_heap) = HeapDistances(prev_heap)
        /\ ScanEnded => final_scan = prev_scan

-----------------------------------------------------------------------------
\* the positions of `added` that hold a vertex of identity id
AddedAt(id) == {i \in 1..Len(added) : added[i].id = id}

\* the greatest of a non-empty set of numbers
Greatest(S) == CHOOSE x \in S : \A y \in S : y <= x

\* the mapping holds the identities added, each with the vertex added last
LastWriteWins ==
    /\ DOMAIN graph = {added[i].id : i \in 1..Len(added)}
    /\ \A id \in DOMAIN graph : graph[id] = added[Greatest(AddedAt(id))]

\* a call leaves every entry but the added vertex's as it was
OnlyOwnEntry ==
    added' # added =>
        LET vertex == added'[Len(added')]
        IN  /\ DOMAIN graph' \ {vertex.id} = DOMAIN graph \ {vertex.id}
            /\ \A id \in DOMAIN graph \ {vertex.id} : graph'[id] = graph[id]

\* C11: after any sequence of add_vertex calls on a new graph the mapping
\* holds exactly the identities added, each mapped to the vertex added last
\* under it with that vertex's edge list alone, and every call leaves the
\* entries of the other identities as they were.
C11_LastWriteWins == []LastWriteWins /\ [][OnlyOwnEntry]_vars

\* an identity was added twice with different edge lists, and another
\* identity was in the graph when the second was added
C11_Witness ==
    \E i, j, k \in 1..Len(added) :
        /\ i < j /\ k < j
        /\ added[i].id = added[j].id
        /\ added[k].id # added[j].id
        /\ added[i].edges # <<>>
        /\ added[j].edges # added[i].edges
        /\ graph[added[j].id] = added[j]

-----------------------------------------------------------------------------
\* a step of a call: into it, inside it, or out of it
CallStep == pc # "idle" \/ pc' # "idle"

\* C12: dijkstra_heap and dijkstra_no_heap leave the graph as it was before
\* the call: no step of a call, its return included, changes the keys of
\* the mapping or the edge list of a vertex.
C12_GraphUnchanged == [][CallStep => graph' = graph]_vars

\* both calls have returned on a graph where they had edges to relax
C12_Witness ==
    /\ HeapEnded
    /\ ScanEnded
    /\ Cardinality(DOMAIN final_heap) > 1
    /\ Cardinality(DOMAIN final_scan) > 1

-----------------------------------------------------------------------------
\* dijkstra_heap is at its loop head with nothing left to pop
HeapQueueEmpty == pc = "heap_pop" /\ priority_queue = EmptyBag

\* dijkstra_no_heap has left its loop, every vertex visited
ScanAllVisited == pc = "scan_done" /\ visited = DOMAIN graph

\* C13: every call terminates: a running dijkstra_heap comes to an empty
\* priority queue and a running dijkstra_no_heap leaves its loop with all
\* vertices visited (here on graphs whose weights sum to at most u32::MAX).
C13_Terminates ==
    /\ (LightGraph /\ HeapRunning) ~> HeapQueueEmpty
    /\ (LightGraph /\ ScanRunning) ~> ScanAllVisited

-----------------------------------------------------------------------------
\* line 114 found no entry for the current vertex (a recorded distance of
\* dijkstra_no_heap is always below u32::MAX)
CurrentHasNoEntry == pc = "scan_for" /\ current_distance = U32_MAX

\* C14: in dijkstra_no_heap an iteration whose current vertex has no distance
\* entry relaxes nothing: no edge of that vertex, whatever its weight,
\* changes the distance table (here on graphs whose weights sum to at most
\* u32::MAX, and for the edges after which the call runs on).
C14_NoEntryNoRelaxation ==
    [][(LightGraph /\ CurrentHasNoEntry /\ pc' # "panicked")
            => distances' = distances]_vars

-----------------------------------------------------------------------------
\* an iteration of the loop of dijkstra_no_heap begins (lines 111-112)
ScanIterationBegins == pc = "scan_while" /\ pc' # "scan_done"

\* each iteration marks a graph vertex that was not yet visited
VisitsFreshVertex ==
    ScanIterationBegins =>
        /\ current_vertex.id \in DOMAIN graph
        /\ current_vertex.id \notin visited
        /\ visited' = visited \cup {current_vertex.id}

\* the loop is left by the break alone, after the edges of the last
\* vertex, with every vertex visited
LeavesByBreakAllVisited ==
    (ScanRunning /\ pc # "scan_done" /\ pc' \notin {"scan_while", "scan_for", "scan_select"})
        => /\ pc = "scan_select"
           /\ pc' = "scan_done"
           /\ visited = DOMAIN graph

\* C15: in dijkstra_no_heap every graph vertex becomes current and is marked
\* visited exactly once, so the loop runs |graph.vertices| iterations, and
\* it is left by the break only when every vertex has been visited and its
\* edges relaxed (here on graphs whose weights sum to at most u32::MAX).
C15_EveryVertexOnce ==
    [][LightGraph => (VisitsFreshVertex /\ LeavesByBreakAllVisited)]_vars

-----------------------------------------------------------------------------
\* the queue entries that a step at the loop head takes out of the queue
Popped ==
    {s \in BagToSet(priority_queue) :
        CopiesIn(s, priority_queue') < CopiesIn(s, priority_queue)}

\* popping an entry of a visited vertex removes that entry and nothing else
DiscardsStale ==
    pc = "heap_pop" =>
        \A s \in Popped :
            s.vertex.id \in visited =>
                /\ priority_queue' = priority_queue (-) SetToBag({s})
                /\ distances' = distances
                /\ visited' = visited
                /\ pc' = "heap_pop"

\* the edges of a vertex are gone through only when it is first visited,
\* and a visited vertex stays visited
RelaxedOnce ==
    /\ pc' = "heap_for" => (visited \subseteq visited')
    /\ (pc = "heap_pop" /\ pc' = "heap_for") => current_vertex'.id \notin visited

\* C16: in dijkstra_heap a popped entry whose vertex is already visited is
\* dropped with the distance table, the visited set and the rest of the
\* queue as they were, so the outgoing edges of a vertex are relaxed at most
\* once per call however many entries were pushed for it.
C16_StaleDiscarded == [][HeapRunning => (DiscardsStale /\ RelaxedOnce)]_vars

\* the call has ended on a graph where the start vertex pushed two entries
\* for one vertex, the second the cheaper: the first was popped stale
C16_Witness ==
    /\ HeapEnded
    /\ Len(start.edges) = 2
    /\ start.edges[1].to = start.edges[2].to
    /\ start.edges[1].to # start.id
    /\ start.edges[2].weight < start.edges[1].weight
    /\ start.edges[1].to \in DOMAIN final_heap
    /\ final_heap[start.edges[1].to][1] = start.edges[2].weight

-----------------------------------------------------------------------------
\* C17: the final distance table does not depend on how ties are broken
\* (which of several queue entries of equal cost is popped, which of
\* several unvisited vertices of equal distance is selected): two runs on
\* the same graph and start end with the same identities and distances
\* (here on graphs whose weights sum to at most u32::MAX).
C17_TieIndependent ==
    (round = 2 /\ LightGraph) =>
        /\ HeapEnded => HeapDistances(final_heap) = HeapDistances(prev_heap)
        /\ ScanEnded => final_scan = prev_scan

-----------------------------------------------------------------------------
\* the addition of line 84 is about to be made and stays within u32
HeapSumInRange ==
    (pc = "heap_for" /\ current_vertex.edges[edge_idx].to \in DOMAIN graph)
        => ~Overflows(current_distance, current_vertex.edges[edge_idx].weight)

\* the addition of line 117 is about to be made and stays within u32
ScanSumInRange ==
    pc = "scan_for"
        => ~Overflows(current_distance, current_vertex.edges[edge_idx].weight)

\* C18: on a graph whose edge weights sum to at most u32::MAX every
\* candidate current_distance + neighbor.weight of either procedure stays
\* within u32, also when the current vertex of dijkstra_no_heap has no
\* distance entry.
C18_SumsInRange == LightGraph => (HeapSumInRange /\ ScanSumInRange)

-----------------------------------------------------------------------------
\* a step of dijkstra_heap that marks a vertex visited (line 77)
MarksVisited == HeapRunning /\ pc' \in {"heap_pop", "heap_for"} /\ visited' # visited

\* the popped cost is the distance recorded for the vertex
PoppedAtRecorded ==
    MarksVisited =>
        \A id \in visited' \ visited :
            /\ id \in DOMAIN distances
            /\ current_distance' = distances[id][1]

\* the entry of a visited vertex, distance and path, stays as it is
VisitedFrozen ==
    (HeapRunning /\ pc' \in {"heap_pop", "heap_for"}) =>
        \A id \in visited : id \in DOMAIN distances' /\ distances'[id] = distances[id]

\* current_distance is the cost of the entry that last marked a vertex
\* visited (0 before the first): the next such cost is not below it
VisitCostsAscend == MarksVisited => current_distance' >= current_distance

\* C19 as claimed, on graphs of any weights
C19_SettledWhenVisitedAnyWeights ==
    [][PoppedAtRecorded /\ VisitedFrozen /\ VisitCostsAscend]_vars

\* C19: in dijkstra_heap, on a graph whose edge weights sum to at most
\* u32::MAX, the entry that first marks a vertex visited carries the
\* distance recorded for that vertex, from then on the vertex's recorded
\* distance and path stay as they are for the rest of the call, and the
\* costs of the entries that mark vertices visited never decrease.
C19_SettledWhenVisited ==
    [][LightGraph => (PoppedAtRecorded /\ VisitedFrozen /\ VisitCostsAscend)]_vars

\* the last edge of the current vertex has just been tried on a vertex
\* visited before it, after at least two visits
C19_Witness ==
    /\ LightGraph
    /\ pc = "heap_pop"
    /\ Cardinality(visited) >= 2
    /\ current_vertex.id \in visited
    /\ edge_idx = Len(current_vertex.edges) + 1
    /\ edge_idx > 1
    /\ current_vertex.edges[edge_idx - 1].to \in visited \ {current_vertex.id}
    /\ current_distance > 0

====
